---- MODULE Spec2Model ----
(***************************************************************************)
(* QR attendance (app2.py): one Streamlit script whose every run first     *)
(* calls ensure_current_slot, then handles at most one pressed button.     *)
(* Strings are sequences of one-character strings; a Python dict is a      *)
(* function whose DOMAIN is its key set.  The slot file holds JSON, whose  *)
(* encoding of str and int values is lossless, so the file is modelled by  *)
(* the dict it decodes to.  The attendance store holds CSV text; what      *)
(* pandas.read_csv makes of that text is computed by read_df.              *)
(***************************************************************************)
EXTENDS Integers, Sequences, FiniteSets, TLC

(* ---------------- configuration (app2.py lines 15-20) ------------------ *)
SLOT_TTL == 600
ENFORCE_CID == TRUE
QR_SECRET == <<"q", "s">>
ADMIN_PASSWORD == <<"p", "w">>
\* len(str(cid)) > 8, line 303
MinCidLen == 8
\* len(pin_input.strip()) < 2, line 373
MinPinLen == 2

(* ---------------- bounds of the model ---------------------------------- *)
\* number of clock advances in a behaviour
MaxTicks == 2
\* number of slot keys drawn from uuid4
MaxMint == 2
\* number of rows the store and the archive may hold together
MaxRecords == 2
\* number of files in the archive directory
MaxArchives == 1

VARIABLES
    now,        \* int(time.time()), seconds
    ticks,      \* clock advances so far (bounds the behaviour)
    minted,     \* slot keys drawn from uuid4 so far
    slotFile,   \* data/current_slot.json: [exists, data]
    csvExists,  \* data/attendance.csv exists
    csvRows,    \* its data rows, in file order (the header row is implicit)
    archiveDir, \* data/archive: file name (its timestamp) -> data rows
    run,        \* the script globals of the last run and the message it showed
    rawFile,    \* data/current_slot.json as text of any kind (study of corrupt files)
    handlers,   \* script runs in progress at once: their position and locals
    disk        \* the data directory as paths and inodes (study of the slot file's writes)

\* the variables only the studies of single functions and of overlapping
\* handlers use
aux == <<rawFile, handlers, disk>>

vars == <<now, ticks, minted, slotFile, csvExists, csvRows, archiveDir, run, aux>>

(* ---------------- strings ---------------------------------------------- *)
RECURSIVE lstrip(_)
lstrip(s) == IF s = <<>> THEN s
             ELSE IF Head(s) = " " THEN lstrip(Tail(s)) ELSE s

RECURSIVE rstrip(_)
rstrip(s) == IF s = <<>> THEN s
             ELSE IF s[Len(s)] = " " THEN rstrip(SubSeq(s, 1, Len(s) - 1)) ELSE s

\* str.strip()
strip(s) == rstrip(lstrip(s))

\* Python's None and the empty dict
None == [t |-> "none"]
EmptyDict == [k \in {} |-> 0]

\* dict.get(key, default)
DictGet(d, k, default) == IF k \in DOMAIN d THEN d[k] ELSE default

\* dict.update(updates)
DictUpdate(d, updates) ==
    [k \in DOMAIN d \cup DOMAIN updates |->
        IF k \in DOMAIN updates THEN updates[k] ELSE d[k]]

(* ---------------- slot management -------------------------------------- *)
\* uuid.uuid4().hex: the n-th value drawn; two characters stand for the 32
\* hexadecimal characters, distinct draws give distinct values
Uuid4Hex(n) == <<"c", <<"1", "2", "3", "4", "5", "6", "7", "8", "9">>[n]>>

\* atomic_write_json: the file holds exactly the dict written
atomic_write_json(data) == [exists |-> TRUE, data |-> data]

\* read_json_safe: None when the file is missing
read_json_safe(f) == IF f.exists THEN f.data ELSE None

\* Python truthiness of what read_json_safe returns (None and {} are falsy)
Truthy(d) == d # None /\ DOMAIN d # {}

\* line 61 with "<" for "<=": the slot already expires at exactly ttl
SlotIsFresh_Strict(slot, created, t, ttl) ==
    slot # None /\ slot # <<>> /\ (t - created) < ttl

\* slot and (now_ts - created) <= ttl   (line 61)
SlotIsFresh(slot, created, t, ttl) ==
    slot # None /\ slot # <<>> /\ (t - created) <= ttl

\* ensure_current_slot writing the old dict updated with the new slot, so
\* that the old "pin" entry survives
ensure_current_slot_KeepsPin(f, t, m, ttl) ==
    LET data == read_json_safe(f)
        slot == IF Truthy(data) THEN DictGet(data, "slot_key", None) ELSE None
        created == IF Truthy(data) THEN DictGet(data, "created", 0) ELSE 0
        new_slot == Uuid4Hex(m + 1)
        new_data == DictUpdate(IF data = None THEN EmptyDict ELSE data,
                               [slot_key |-> new_slot, created |-> t])
    IN  IF Truthy(data) /\ SlotIsFresh(slot, created, t, ttl)
        THEN [slot |-> slot, created |-> created, file |-> f, minted |-> m]
        ELSE [slot |-> new_slot, created |-> t,
              file |-> atomic_write_json(new_data), minted |-> m + 1]

\* ensure_current_slot: [slot, created, file, minted] after the call at time t
ensure_current_slot(f, t, m, ttl) ==
    LET data == read_json_safe(f)
        slot == IF Truthy(data) THEN DictGet(data, "slot_key", None) ELSE None
        created == IF Truthy(data) THEN DictGet(data, "created", 0) ELSE 0
        new_slot == Uuid4Hex(m + 1)
        new_data == [slot_key |-> new_slot, created |-> t]
    IN  IF Truthy(data) /\ SlotIsFresh(slot, created, t, ttl)
        THEN [slot |-> slot, created |-> created, file |-> f, minted |-> m]
        ELSE [slot |-> new_slot, created |-> t,
              file |-> atomic_write_json(new_data), minted |-> m + 1]

\* read_slot_data: {} when the file is missing
read_slot_data(f) == LET d == read_json_safe(f) IN IF d = None THEN EmptyDict ELSE d

\* write_slot_data: read, update, write back
write_slot_data(f, updates) == atomic_write_json(DictUpdate(read_slot_data(f), updates))

\* get_current_pin: the "pin" entry or None
get_current_pin(f) == DictGet(read_slot_data(f), "pin", None)

\* set_current_pin: an empty PIN clears, otherwise pin and pin_set_at are written
set_current_pin(f, pin_value, t) ==
    LET pin == strip(pin_value)
    IN  IF pin = <<>>
        THEN write_slot_data(f, [pin |-> <<>>])
        ELSE write_slot_data(f, [pin |-> pin, pin_set_at |-> t])

(* ---------------- the attendance store --------------------------------- *)
\* a row as safe_append_csv writes it: the text of each field (csv quoting
\* is undone by the reader); timestamp is the second now_iso_utc formats
Row(ts, slot_key, name, email, cid) ==
    [timestamp |-> ts, slot_key |-> slot_key, name |-> name, email |-> email, cid |-> cid]

\* safe_append_csv opening the file with mode "w": the row replaces the rows
safe_append_csv_Truncating(exists, rows, row) == [exists |-> TRUE, rows |-> <<row>>]

\* safe_append_csv: header when the file is new, then the row
safe_append_csv(exists, rows, row) == [exists |-> TRUE, rows |-> Append(rows, row)]

\* the texts pandas.read_csv reads as a missing value (its default na_values)
NaValues ==
    { <<>>,
      <<"#", "N", "/", "A">>,
      <<"#", "N", "/", "A", " ", "N", "/", "A">>,
      <<"#", "N", "A">>,
      <<"-", "1", ".", "#", "I", "N", "D">>,
      <<"-", "1", ".", "#", "Q", "N", "A", "N">>,
      <<"-", "N", "a", "N">>,
      <<"-", "n", "a", "n">>,
      <<"1", ".", "#", "I", "N", "D">>,
      <<"1", ".", "#", "Q", "N", "A", "N">>,
      <<"<", "N", "A", ">">>,
      <<"N", "/", "A">>,
      <<"N", "A">>,
      <<"N", "U", "L", "L">>,
      <<"N", "a", "N">>,
      <<"N", "o", "n", "e">>,
      <<"n", "/", "a">>,
      <<"n", "a", "n">>,
      <<"n", "u", "l", "l">> }

IsDigit(c) == c \in {"0", "1", "2", "3", "4", "5", "6", "7", "8", "9"}

AllDigits(s) == s # <<>> /\ \A i \in 1..Len(s) : IsDigit(s[i])

\* text that read_csv converts to int64: optional sign and digits (at most
\* 18 digits always fit)
IsIntText(s) ==
    /\ s # <<>>
    /\ LET body == IF Head(s) \in {"+", "-"} THEN Tail(s) ELSE s
       IN  AllDigits(body) /\ Len(body) <= 18

RECURSIVE DropZeros(_)
DropZeros(s) == IF Len(s) > 1 /\ Head(s) = "0" THEN DropZeros(Tail(s)) ELSE s

\* the integer an int text denotes, as its canonical decimal digits
IntValue(s) ==
    LET neg == Head(s) = "-"
        body == DropZeros(IF Head(s) \in {"+", "-"} THEN Tail(s) ELSE s)
    IN  IF neg /\ body # <<"0">> THEN <<"-">> \o body ELSE body

\* read_csv's type inference for one column of texts: int64 when every cell
\* is an integer, float64 when every cell is an integer or missing, else
\* object with the texts kept and the missing ones NaN
ParseColumn(texts) ==
    LET n == Len(texts)
        allInt == \A i \in 1..n : IsIntText(texts[i])
        allNum == \A i \in 1..n : IsIntText(texts[i]) \/ texts[i] \in NaValues
    IN  [i \in 1..n |->
            IF allInt THEN [t |-> "int", v |-> IntValue(texts[i])]
            ELSE IF texts[i] \in NaValues THEN [t |-> "nan"]
            ELSE IF allNum THEN [t |-> "float", v |-> IntValue(texts[i])]
            ELSE [t |-> "str", v |-> texts[i]]]

Column(rows, c) == [i \in 1..Len(rows) |-> rows[i][c]]

\* read_df: creates the header-only file when it is missing; the frame has
\* one inferred column per field (timestamps are never numeric texts)
read_df(exists, rows) ==
    [exists |-> TRUE,
     df |-> [timestamp |-> Column(rows, "timestamp"),
             slot_key |-> ParseColumn(Column(rows, "slot_key")),
             name |-> ParseColumn(Column(rows, "name")),
             email |-> ParseColumn(Column(rows, "email")),
             cid |-> ParseColumn(Column(rows, "cid"))]]

\* pandas ==  between a cell and a Python str: equal texts of an object
\* column; a number or NaN never equals a str
PdEq(cell, s) == cell.t = "str" /\ cell.v = s

\* the duplicate check without the slot_key comparison
IsDup_AnySlot(df, slot_key, cid) ==
    \E i \in 1..Len(df.slot_key) : PdEq(df.cid[i], cid)

\* ((df['slot_key'] == slot_key) & (df.get('cid','') == cid)).any()
IsDup(df, slot_key, cid) ==
    \E i \in 1..Len(df.slot_key) : PdEq(df.slot_key[i], slot_key) /\ PdEq(df.cid[i], cid)

\* archive_records: the store is renamed to the file named by the current
\* second (replacing a file of that name), then recreated header-only
archive_records(exists, rows, dir, t) ==
    [exists |-> TRUE, rows |-> <<>>,
     dir |-> IF exists THEN DictUpdate(dir, t :> rows) ELSE dir]

\* clear_records: the store is rewritten header-only
clear_records(exists, rows) == [exists |-> TRUE, rows |-> <<>>]

(* ---------------- initial state ---------------------------------------- *)
Init ==
    /\ now = 0
    /\ ticks = 0
    /\ minted = 0
    /\ slotFile = [exists |-> FALSE, data |-> EmptyDict]
    /\ csvExists = FALSE
    /\ csvRows = <<>>
    /\ archiveDir = EmptyDict
    /\ run = [op |-> "none"]
    /\ rawFile = [kind |-> "missing"]
    /\ handlers = <<>>
    /\ disk = <<>>

(* ---------------- the clock -------------------------------------------- *)
\* time 0 is the first run; the clock is then read at SLOT_TTL, SLOT_TTL + 1,
\* 2 * SLOT_TTL + 1, ...: a slot is seen exactly at and one second past its expiry
TickStep(n) == IF n % 2 = 0 THEN SLOT_TTL ELSE 1

Tick ==
    /\ ticks < MaxTicks
    /\ slotFile.exists
    /\ now' = now + TickStep(ticks)
    /\ ticks' = ticks + 1
    /\ UNCHANGED <<minted, slotFile, csvExists, csvRows, archiveDir, run, aux>>

(* ---------------- a page load without a pressed button ----------------- *)
PageLoad ==
    \E es \in {ensure_current_slot(slotFile, now, minted, SLOT_TTL)} :
        /\ es.minted <= MaxMint
        /\ slotFile' = es.file
        /\ minted' = es.minted
        /\ run' = [op |-> "load", slot_key |-> es.slot, slot_created |-> es.created,
                   msg |-> "page"]
        /\ UNCHANGED <<now, ticks, csvExists, csvRows, archiveDir, aux>>

\* rows held by the store and the archive files together
RECURSIVE RowsIn(_, _)
RowsIn(dir, names) ==
    IF names = {} THEN 0
    ELSE LET n == CHOOSE x \in names : TRUE
         IN  Len(dir[n]) + RowsIn(dir, names \ {n})

Held == Len(csvRows) + RowsIn(archiveDir, DOMAIN archiveDir)

(* ---------------- the student's request --------------------------------- *)
\* st.experimental_get_query_params(): a dict with the parameters present
Absent == <<"absent">>

QueryParams(key, s, cid) ==
    LET k == IF key = Absent THEN EmptyDict ELSE [key |-> key]
        q == IF s = Absent THEN EmptyDict ELSE [s |-> s]
        c == IF cid = Absent THEN EmptyDict ELSE [cid |-> cid]
    IN  DictUpdate(DictUpdate(k, q), c)

\* the link check without the comparison of s
LinkOk_NoSecret(params, slot_key) ==
    /\ "key" \in DOMAIN params /\ "s" \in DOMAIN params
    /\ params["key"] = slot_key

\* the link check without the comparison of key
LinkOk_NoKey(params, slot_key) ==
    /\ "key" \in DOMAIN params /\ "s" \in DOMAIN params
    /\ params["s"] = QR_SECRET

\* "key" and "s" present, s == QR_SECRET and key == slot_key (lines 247-249, 300-301)
LinkOk(params, slot_key) ==
    /\ "key" \in DOMAIN params /\ "s" \in DOMAIN params
    /\ params["s"] = QR_SECRET
    /\ params["key"] = slot_key

\* the auto-CID page is shown and the script stops (lines 250-295)
AutoCidStop(params, slot_key) ==
    LinkOk(params, slot_key) /\ "cid" \notin DOMAIN params /\ ENFORCE_CID

\* cid as line 302 leaves it
CidOf(params, slot_key) ==
    IF LinkOk(params, slot_key) THEN DictGet(params, "cid", None) ELSE None

\* line 303 with ">=" for ">"
valid_link_AtLeast(params, slot_key) ==
    LET cid == CidOf(params, slot_key)
    IN  /\ LinkOk(params, slot_key)
        /\ \/ ~ENFORCE_CID
           \/ cid # None /\ cid # <<>> /\ Len(cid) >= MinCidLen

\* valid_link as lines 299-304 leave it
valid_link(params, slot_key) ==
    LET cid == CidOf(params, slot_key)
    IN  /\ LinkOk(params, slot_key)
        /\ \/ ~ENFORCE_CID
           \/ cid # None /\ cid # <<>> /\ Len(cid) > MinCidLen

\* current_pin and str(current_pin).strip() != ""  (line 321)
PinIsSet(current_pin) ==
    current_pin # None /\ current_pin # <<>> /\ strip(current_pin) # <<>>

\* line 322 without the comparison: any PIN typed passes
PinMatches_AnyTyped(pin_entered, current_pin) == pin_entered # <<>>

\* not (not pin_entered or pin_entered.strip() != str(current_pin).strip())
PinMatches(pin_entered, current_pin) ==
    pin_entered # <<>> /\ strip(pin_entered) = strip(current_pin)

\* the message the form handler shows (lines 313-342), after the auto-CID stop
SubmitMsg(f, exists, rows, slot_key, params, name, email, pin_entered) ==
    LET cid == CidOf(params, slot_key)
        current_pin == get_current_pin(f)
    IN  IF AutoCidStop(params, slot_key) THEN "stopped"
        ELSE IF strip(name) = <<>> \/ strip(email) = <<>> THEN "enter_name_email"
        ELSE IF ~valid_link(params, slot_key) THEN "blocked"
        ELSE IF ~PinIsSet(current_pin) THEN "no_pin"
        ELSE IF ~PinMatches(pin_entered, current_pin) THEN "wrong_pin"
        ELSE IF IsDup(read_df(exists, rows).df, slot_key, cid) THEN "duplicate"
        ELSE "ok"

\* the requests tried: well-formed ones (any key ever issued, two devices)
\* and the plain one with one part changed, missing or wrong
IssuedKeys == {Uuid4Hex(i) : i \in 1..MaxMint}
CidAlpha == <<"d", "e", "v", "-", "a", "b", "c", "d", "e">>
CidDigits == <<"1", "2", "3", "4", "5", "6", "7", "8", "9">>
CidShort == <<"d", "e", "v", "-", "a", "b", "c", "d">>

WellFormed ==
    [key : IssuedKeys, s : {QR_SECRET}, cid : {CidAlpha, CidDigits},
     name : {<<"a", " ">>}, email : {<<"e">>}, pin_entered : {<<" ", "1", "2">>}]

Plain == {r \in WellFormed : r.cid = CidAlpha}

Malformed ==
    UNION {{ [r EXCEPT !.email = <<" ", "f">>],
             [r EXCEPT !.s = <<"x">>], [r EXCEPT !.s = Absent],
             [r EXCEPT !.key = Absent],
             [r EXCEPT !.cid = CidShort], [r EXCEPT !.cid = Absent],
             [r EXCEPT !.name = <<" ">>], [r EXCEPT !.email = <<>>],
             [r EXCEPT !.pin_entered = <<>>] } : r \in Plain}

SubmitInputs == WellFormed \cup Malformed

\* a run in which "Mark Attendance" was pressed
Submit(key, s, c, name, email, pin_entered) ==
    \E es \in {ensure_current_slot(slotFile, now, minted, SLOT_TTL)} :
    \E params \in {QueryParams(key, s, c)} :
    \E msg \in {SubmitMsg(es.file, csvExists, csvRows, es.slot, params,
                          name, email, pin_entered)} :
        LET cid == CidOf(params, es.slot)
            row == Row(now, es.slot, strip(name), strip(email),
                       IF cid = None THEN <<>> ELSE cid)
            saved == safe_append_csv(csvExists, csvRows, row)
        IN  /\ es.minted <= MaxMint
            /\ msg = "ok" => Held < MaxRecords
            /\ slotFile' = es.file
            /\ minted' = es.minted
            /\ csvExists' = IF msg = "ok" THEN saved.exists
                            ELSE IF msg = "duplicate"
                            THEN read_df(csvExists, csvRows).exists
                            ELSE csvExists
            /\ csvRows' = IF msg = "ok" THEN saved.rows ELSE csvRows
            /\ run' = [op |-> "submit", slot_key |-> es.slot,
                       slot_created |-> es.created, params |-> params,
                       name |-> name, email |-> email,
                       pin_entered |-> pin_entered, msg |-> msg]
            /\ UNCHANGED <<now, ticks, archiveDir, aux>>

(* ---------------- the admin panel --------------------------------------- *)
ARCHIVE == <<"A", "R", "C", "H", "I", "V", "E">>
CLEAR == <<"C", "L", "E", "A", "R">>

PwInputs == {ADMIN_PASSWORD, <<"x">>}
PinInputs == {<<"7">>, <<"1", "2", " ">>}
\* str(uuid.uuid4().int)[:4]
GeneratedPins == {<<"3", "4", "0", "0">>}
TokenInputs == {ARCHIVE, CLEAR}
\* password and typed text: either both as the button wants them, or one wrong
Typed(good, others) ==
    {<<ADMIN_PASSWORD, x>> : x \in {good} \cup others} \cup {<<<<"x">>, good>>}

\* what every admin run does: ensure_current_slot, then the pressed button
AdminRun(op, pw, arg, msg, file, exists, rows, dir) ==
    \E es \in {ensure_current_slot(slotFile, now, minted, SLOT_TTL)} :
        /\ es.minted <= MaxMint
        /\ minted' = es.minted
        /\ slotFile' = file
        /\ csvExists' = exists
        /\ csvRows' = rows
        /\ archiveDir' = dir
        /\ run' = [op |-> op, slot_key |-> es.slot, slot_created |-> es.created,
                   pw |-> pw, arg |-> arg, msg |-> msg]
        /\ UNCHANGED <<now, ticks, aux>>

\* the slot file after line 177 of the run
Ensured == ensure_current_slot(slotFile, now, minted, SLOT_TTL).file

\* "Show records" (lines 348-362)
ShowRecords(pw) ==
    IF pw = ADMIN_PASSWORD
    THEN AdminRun("show", pw, <<>>, "shown", Ensured,
                  read_df(csvExists, csvRows).exists, csvRows, archiveDir)
    ELSE AdminRun("show", pw, <<>>, "wrong_password", Ensured, csvExists, csvRows, archiveDir)

\* "Set PIN" (lines 370-380)
SetPin(pw, pin_input) ==
    IF pw # ADMIN_PASSWORD
    THEN AdminRun("set_pin", pw, pin_input, "enter_password", Ensured,
                  csvExists, csvRows, archiveDir)
    ELSE IF pin_input = <<>> \/ Len(strip(pin_input)) < MinPinLen
    THEN AdminRun("set_pin", pw, pin_input, "pin_too_short", Ensured,
                  csvExists, csvRows, archiveDir)
    ELSE AdminRun("set_pin", pw, pin_input, "pin_saved",
                  set_current_pin(Ensured, strip(pin_input), now),
                  csvExists, csvRows, archiveDir)

\* "Generate random 4-digit PIN" (lines 382-391)
GeneratePin(pw, rnd) ==
    IF pw # ADMIN_PASSWORD
    THEN AdminRun("generate_pin", pw, <<>>, "enter_password", Ensured,
                  csvExists, csvRows, archiveDir)
    ELSE AdminRun("generate_pin", pw, rnd, "pin_generated",
                  set_current_pin(Ensured, rnd, now), csvExists, csvRows, archiveDir)

\* "Clear PIN for this slot" (lines 393-401)
ClearPin(pw) ==
    IF pw # ADMIN_PASSWORD
    THEN AdminRun("clear_pin", pw, <<>>, "enter_password", Ensured,
                  csvExists, csvRows, archiveDir)
    ELSE AdminRun("clear_pin", pw, <<>>, "pin_cleared",
                  set_current_pin(Ensured, <<>>, now), csvExists, csvRows, archiveDir)

\* "Archive now" (lines 406-414)
ArchiveNow(pw, archive_token) ==
    LET a == archive_records(csvExists, csvRows, archiveDir, now)
    IN  IF pw # ADMIN_PASSWORD
        THEN AdminRun("archive", pw, archive_token, "enter_password", Ensured,
                      csvExists, csvRows, archiveDir)
        ELSE IF archive_token # ARCHIVE
        THEN AdminRun("archive", pw, archive_token, "type_archive", Ensured,
                      csvExists, csvRows, archiveDir)
        ELSE /\ Cardinality(DOMAIN a.dir) <= MaxArchives
             /\ AdminRun("archive", pw, archive_token, "archived", Ensured,
                         a.exists, a.rows, a.dir)

\* "Clear now" without the check of the typed phrase
ClearNow_NoPhrase(pw, clear_token) ==
    LET c == clear_records(csvExists, csvRows)
    IN  IF pw # ADMIN_PASSWORD
        THEN AdminRun("clear", pw, clear_token, "enter_password", Ensured,
                      csvExists, csvRows, archiveDir)
        ELSE AdminRun("clear", pw, clear_token, "cleared", Ensured,
                      c.exists, c.rows, archiveDir)

\* "Clear now" (lines 418-426)
ClearNow(pw, clear_token) ==
    LET c == clear_records(csvExists, csvRows)
    IN  IF pw # ADMIN_PASSWORD
        THEN AdminRun("clear", pw, clear_token, "enter_password", Ensured,
                      csvExists, csvRows, archiveDir)
        ELSE IF clear_token # CLEAR
        THEN AdminRun("clear", pw, clear_token, "type_clear", Ensured,
                      csvExists, csvRows, archiveDir)
        ELSE AdminRun("clear", pw, clear_token, "cleared", Ensured,
                      c.exists, c.rows, archiveDir)

Next ==
    \/ Tick
    \/ PageLoad
    \/ \E r \in SubmitInputs :
            Submit(r.key, r.s, r.cid, r.name, r.email, r.pin_entered)
    \/ \E pw \in PwInputs : ShowRecords(pw)
    \/ \E a \in Typed(<<"1", "2", " ">>, PinInputs) : SetPin(a[1], a[2])
    \/ \E pw \in PwInputs, rnd \in GeneratedPins : GeneratePin(pw, rnd)
    \/ \E pw \in PwInputs : ClearPin(pw)
    \/ \E a \in Typed(ARCHIVE, TokenInputs) : ArchiveNow(a[1], a[2])
    \/ \E a \in Typed(CLEAR, TokenInputs) : ClearNow(a[1], a[2])

Spec == Init /\ [][Next]_vars

(* ---------------- properties ------------------------------------------- *)
\* a step that is one run of the script (the clock stands still)
IsRun == ticks' = ticks

\* the keys drawn from uuid4 before this step
KeysBefore == {Uuid4Hex(i) : i \in 1..minted}

\* the "pin" entry of the slot file, None when there is none
StoredPin == DictGet(slotFile.data, "pin", None)

Rows == {csvRows[i] : i \in 1..Len(csvRows)}

\* the query parameter k is present and equal to v
ParamIs(params, k, v) == k \in DOMAIN params /\ params[k] = v

\* C1: a run made at most SLOT_TTL seconds after the created time the run
\* before it returned gets the same slot_key and created; the first run made
\* later than that (and the very first run) gets a slot_key never issued
\* before, with created equal to the time of the run.
C1_SlotStableThenRotates ==
    [][IsRun =>
          IF run.op # "none" /\ now - run.slot_created <= SLOT_TTL
          THEN run'.slot_key = run.slot_key /\ run'.slot_created = run.slot_created
          ELSE run'.slot_key \notin KeysBefore /\ run'.slot_created = now]_vars

\* a second slot was minted one second past the expiry of the first, which
\* was still returned to a submission made exactly at its expiry
C1_Witness ==
    /\ run.op # "none"
    /\ run.slot_key = Uuid4Hex(2) /\ run.slot_created = SLOT_TTL + 1
    /\ \E r \in Rows : r.slot_key = Uuid4Hex(1) /\ r.timestamp = SLOT_TTL

\* C2: after every run the store holds at most one row for each slot_key
\* and cid, and a submission whose slot_key and cid are already in a row of
\* the store is not accepted and leaves the store unchanged, whatever its
\* email.
C2_OneRowPerSlotAndDevice ==
    [][IsRun =>
          /\ \A i, j \in 1..Len(csvRows') :
                (/\ csvRows'[i].slot_key = csvRows'[j].slot_key
                 /\ csvRows'[i].cid = csvRows'[j].cid) => i = j
          /\ (run'.op = "submit"
                /\ \E r \in Rows : /\ r.slot_key = run'.slot_key
                                  /\ ParamIs(run'.params, "cid", r.cid)) =>
                /\ run'.msg # "ok"
                /\ csvRows' = csvRows]_vars

\* C3: a run appends a row only if the slot file holds a non-empty PIN and
\* the PIN typed equals it after trimming; a submission made while no PIN is
\* stored, or with another PIN, leaves the store unchanged.
C3_PinGate ==
    [][IsRun =>
          LET pin == DictGet(slotFile'.data, "pin", None)
              pinGood == /\ pin # None /\ strip(pin) # <<>>
                         /\ run'.pin_entered # <<>>
                         /\ strip(run'.pin_entered) = strip(pin)
          IN  /\ Len(csvRows') > Len(csvRows) => run'.op = "submit" /\ pinGood
              /\ (run'.op = "submit" /\ ~pinGood) =>
                    /\ csvRows' = csvRows
                    /\ run'.msg \notin {"ok", "duplicate"}]_vars

\* a submission with a valid link was refused for its PIN while another PIN
\* was stored
C3_Witness ==
    /\ run.op = "submit" /\ run.msg = "wrong_pin"
    /\ StoredPin # None /\ StoredPin # <<>>
    /\ run.pin_entered # <<>> /\ strip(run.pin_entered) # StoredPin

\* C4: a submission whose s is not QR_SECRET, or whose key is not the
\* current slot_key, is rejected with a message other than the duplicate one
\* and appends nothing.
C4_BadLinkRejected ==
    [][(IsRun /\ run'.op = "submit"
          /\ \/ ~ParamIs(run'.params, "s", QR_SECRET)
             \/ ~ParamIs(run'.params, "key", run'.slot_key)) =>
          /\ run'.msg \in {"enter_name_email", "blocked"}
          /\ csvRows' = csvRows /\ csvExists' = csvExists]_vars

\* a submission with the current key and a device already in the store for
\* this slot, but a wrong secret, was blocked
C4_Witness ==
    /\ run.op = "submit" /\ run.msg = "blocked"
    /\ ParamIs(run.params, "key", run.slot_key)
    /\ "s" \in DOMAIN run.params /\ run.params["s"] # QR_SECRET
    /\ \E r \in Rows : r.slot_key = run.slot_key /\ ParamIs(run.params, "cid", r.cid)

\* C5: every row appended carries the slot_key of the newest slot; a
\* submission presenting another key appends nothing; and the run that mints
\* a slot keeps the rows already stored (unless it is an archive or clear).
C5_SupersededSlotAcceptsNothing ==
    [][IsRun =>
          /\ Len(csvRows') > Len(csvRows) =>
                /\ csvRows' = Append(csvRows, csvRows'[Len(csvRows')])
                /\ csvRows'[Len(csvRows')].slot_key = Uuid4Hex(minted')
                /\ csvRows'[Len(csvRows')].slot_key \notin KeysBefore \ {Uuid4Hex(minted')}
          /\ (run'.op = "submit"
                /\ ~ParamIs(run'.params, "key", Uuid4Hex(minted'))) =>
                    csvRows' = csvRows
          /\ (minted' # minted /\ run'.op \notin {"archive", "clear"}) =>
                SubSeq(csvRows', 1, Len(csvRows)) = csvRows]_vars

\* after the rotation, a submission presenting the key of the first slot was
\* blocked, and the row stored under that key is still there
C5_Witness ==
    /\ minted = 2 /\ run.op = "submit" /\ run.msg = "blocked"
    /\ run.slot_key = Uuid4Hex(2)
    /\ ParamIs(run.params, "key", Uuid4Hex(1))
    /\ ParamIs(run.params, "s", QR_SECRET)
    /\ now > SLOT_TTL
    /\ \E r \in Rows : r.slot_key = Uuid4Hex(1)

\* the request of the run just made has the current key, the secret, a
\* device id longer than MinCidLen, a name and an email, and its slot_key
\* and cid are in no row of the store
WellFormedAndNew ==
    /\ run'.op = "submit"
    /\ ParamIs(run'.params, "key", run'.slot_key)
    /\ ParamIs(run'.params, "s", QR_SECRET)
    /\ "cid" \in DOMAIN run'.params /\ Len(run'.params["cid"]) > MinCidLen
    /\ strip(run'.name) # <<>> /\ strip(run'.email) # <<>>
    /\ \A r \in Rows : ~(r.slot_key = run'.slot_key /\ r.cid = run'.params["cid"])

\* the run just made reported success and appended exactly the row of its
\* request (name and email trimmed)
AcceptedOneRow ==
    /\ run'.msg = "ok"
    /\ csvExists'
    /\ csvRows' = Append(csvRows,
                         [timestamp |-> now, slot_key |-> run'.slot_key,
                          name |-> strip(run'.name), email |-> strip(run'.email),
                          cid |-> run'.params["cid"]])

\* the PIN typed in the run just made is the non-empty PIN of the slot file
TypedThePin ==
    LET pin == DictGet(slotFile'.data, "pin", None)
    IN  /\ pin # None /\ strip(pin) # <<>>
        /\ run'.pin_entered # <<>> /\ strip(run'.pin_entered) = strip(pin)

\* C6 as stated: a submission with the current key, the secret, a well-formed
\* device id, a name and an email, whose slot_key and cid are not in the
\* store, is accepted and appends exactly one row.
C6_AcceptedWithoutPin ==
    [][(IsRun /\ WellFormedAndNew) => AcceptedOneRow]_vars

\* C6, amended: such a submission is accepted and appends exactly one row
\* (slot_key, trimmed name, trimmed email, cid) when moreover the PIN typed
\* equals, after trimming, the non-empty PIN stored for the slot.
C6_AcceptedWithPin ==
    [][(IsRun /\ WellFormedAndNew /\ TypedThePin) => AcceptedOneRow]_vars

\* the device that has a row under the first slot was accepted under the
\* second slot
C6_Witness ==
    /\ run.op = "submit" /\ run.msg = "ok"
    /\ Len(csvRows) = 2
    /\ csvRows[1].cid = csvRows[2].cid
    /\ csvRows[1].slot_key = Uuid4Hex(1) /\ csvRows[2].slot_key = Uuid4Hex(2)
    /\ csvRows[2].name = <<"a">>

\* the run just made pressed an admin button without the password, or
\* Archive / Clear without the exact phrase
Unauthorized ==
    /\ run'.op \in {"set_pin", "generate_pin", "clear_pin", "archive", "clear"}
    /\ \/ run'.pw # ADMIN_PASSWORD
       \/ run'.op = "archive" /\ run'.arg # ARCHIVE
       \/ run'.op = "clear" /\ run'.arg # CLEAR

ClearedWithAuthority ==
    run'.op = "clear" /\ run'.pw = ADMIN_PASSWORD /\ run'.arg = CLEAR

\* C7 as stated: an unauthorized admin action leaves the store and the slot
\* file unchanged; an authorized Clear leaves the store header-only.
C7_UnauthorizedChangesNothing ==
    [][IsRun =>
          /\ Unauthorized => UNCHANGED <<csvExists, csvRows, archiveDir, slotFile>>
          /\ ClearedWithAuthority => csvExists' /\ csvRows' = <<>>]_vars

\* C7, amended: an unauthorized admin action leaves the store and the
\* archive unchanged, and the slot file too unless the slot is missing or
\* expired, in which case the run replaces it by a new slot without a PIN, as
\* every run does; an authorized Clear leaves the store header-only.
C7_UnauthorizedOnlyRotates ==
    [][IsRun =>
          /\ Unauthorized =>
                /\ UNCHANGED <<csvExists, csvRows, archiveDir>>
                /\ IF slotFile.exists /\ now - slotFile.data["created"] <= SLOT_TTL
                   THEN slotFile' = slotFile
                   ELSE /\ slotFile'.exists
                        /\ slotFile'.data = [slot_key |-> Uuid4Hex(minted'), created |-> now]
                        /\ minted' = minted + 1
          /\ ClearedWithAuthority => csvExists' /\ csvRows' = <<>>]_vars

\* Clear was pressed with the password but not the exact phrase, and the
\* rows and the PIN are still there
C7_Witness ==
    /\ run.op = "clear" /\ run.pw = ADMIN_PASSWORD /\ run.arg # CLEAR
    /\ csvRows # <<>>
    /\ StoredPin # None /\ StoredPin # <<>>

\* C8: of two successful archive runs in succession, the second leaves the
\* store header-only, adds a backup file and leaves every earlier backup
\* file as it was.
C8_ArchiveTwiceTwoBackups ==
    [][(IsRun /\ run.op = "archive" /\ run.msg = "archived"
              /\ run'.op = "archive" /\ run'.msg = "archived") =>
          /\ csvExists' /\ csvRows' = <<>>
          /\ DOMAIN archiveDir' # DOMAIN archiveDir
          /\ \A n \in DOMAIN archiveDir :
                n \in DOMAIN archiveDir' /\ archiveDir'[n] = archiveDir[n]]_vars

\* C9: a run that mints a slot leaves the slot file without a set PIN unless
\* the run itself is a PIN setting; a non-empty stored PIN was always set at
\* or after the creation of the slot it is stored with, so every accepted
\* submission typed a PIN set under its own slot.
C9_PinPerSlot ==
    [][IsRun =>
          LET d == slotFile'.data
              pin == DictGet(d, "pin", None)
          IN  /\ (minted' # minted /\ run'.msg \notin {"pin_saved", "pin_generated"}) =>
                    (pin = None \/ pin = <<>>)
              /\ (pin # None /\ pin # <<>>) =>
                    "pin_set_at" \in DOMAIN d /\ d["pin_set_at"] >= d["created"]
              /\ (run'.op = "submit" /\ run'.msg = "ok") =>
                    /\ pin # None /\ pin # <<>>
                    /\ d["pin_set_at"] >= run'.slot_created]_vars

\* under the second slot a submission typing the PIN that admitted a row
\* under the first slot was refused because no PIN is set
C9_Witness ==
    /\ minted = 2 /\ run.op = "submit" /\ run.msg = "no_pin"
    /\ run.slot_key = Uuid4Hex(2)
    /\ "pin" \notin DOMAIN slotFile.data
    /\ run.pin_entered = <<" ", "1", "2">>
    /\ \E r \in Rows : r.slot_key = Uuid4Hex(1)

\* C10: a submission without a cid, or with a cid of at most MinCidLen
\* characters, appends nothing, and every row of the store has a cid longer
\* than that.
C10_DeviceIdRequired ==
    [][IsRun =>
          /\ (run'.op = "submit"
                /\ \/ "cid" \notin DOMAIN run'.params
                   \/ Len(run'.params["cid"]) <= MinCidLen) => csvRows' = csvRows
          /\ \A i \in 1..Len(csvRows') :
                csvRows'[i].cid # <<>> /\ Len(csvRows'[i].cid) > MinCidLen]_vars

\* a submission with the current key and the secret but a cid of exactly
\* MinCidLen characters was blocked
C10_Witness ==
    /\ run.op = "submit" /\ run.msg = "blocked"
    /\ ParamIs(run.params, "key", run.slot_key)
    /\ ParamIs(run.params, "s", QR_SECRET)
    /\ "cid" \in DOMAIN run.params /\ Len(run.params["cid"]) = MinCidLen

\* the reasons a submission r has to be refused, given the rows stored
RejectCauses(r) ==
    {c \in {"fields", "link", "device", "duplicate"} :
        \/ c = "fields" /\ (strip(r.name) = <<>> \/ strip(r.email) = <<>>)
        \/ c = "link" /\ \/ ~ParamIs(r.params, "s", QR_SECRET)
                         \/ ~ParamIs(r.params, "key", r.slot_key)
        \/ c = "device" /\ \/ "cid" \notin DOMAIN r.params
                           \/ Len(r.params["cid"]) <= MinCidLen
        \/ c = "duplicate" /\ \E row \in Rows :
                                /\ row.slot_key = r.slot_key
                                /\ ParamIs(r.params, "cid", row.cid)}

\* C11: two refused submissions, one after the other, each with a single
\* reason to be refused (missing fields, a bad or expired link, a missing or
\* short device id, a device already recorded) and not the same reason, are
\* shown different messages.
C11_CausesHaveDistinctMessages ==
    [][(IsRun /\ run.op = "submit" /\ run'.op = "submit"
          /\ run.msg # "ok" /\ run'.msg # "ok"
          /\ Cardinality(RejectCauses(run)) = 1
          /\ Cardinality(RejectCauses(run')) = 1
          /\ RejectCauses(run) # RejectCauses(run')) =>
          run.msg # run'.msg]_vars

(* ---------------- the slot file with any content ------------------------ *)
\* The definitions of the slot management above take a slot file the program
\* itself wrote.  Here the file holds any text: JSON values carry their type.
JNull == [t |-> "null"]
JInt(n) == [t |-> "int", i |-> n]
JStr(x) == [t |-> "str", s |-> x]
JList == [t |-> "list"]
JDict(d) == [t |-> "dict", d |-> d]
RawJson(v) == [kind |-> "json", value |-> v]

\* read_json_safe on any file: JNull (None) when the file is missing, cannot
\* be opened or does not hold JSON
read_json_safe_any(c) == IF c.kind = "json" THEN c.value ELSE JNull

\* Python truthiness of a JSON value (JList stands for a non-empty list)
PyTruthy(v) ==
    CASE v.t = "null" -> FALSE
      [] v.t = "int" -> v.i # 0
      [] v.t = "str" -> v.s # <<>>
      [] v.t = "list" -> TRUE
      [] v.t = "dict" -> DOMAIN v.d # {}

RECURSIVE DigitsValue(_)
DigitsValue(x) ==
    IF x = <<>> THEN 0
    ELSE 10 * DigitsValue(SubSeq(x, 1, Len(x) - 1))
         + (CHOOSE n \in 0..9 : <<"0", "1", "2", "3", "4", "5", "6", "7", "8", "9">>[n + 1] = x[Len(x)])

\* int(v): [ok, v]; a str of digits (sign and surrounding blanks allowed) is
\* converted, any other str raises ValueError, None and a list TypeError
PyInt(v) ==
    CASE v.t = "int" -> [ok |-> TRUE, v |-> v.i]
      [] v.t = "str" ->
            LET x == strip(v.s)
                body == IF x # <<>> /\ Head(x) \in {"+", "-"} THEN Tail(x) ELSE x
            IN  IF AllDigits(body)
                THEN [ok |-> TRUE,
                      v |-> IF Head(x) = "-" THEN 0 - DigitsValue(body)
                            ELSE DigitsValue(body)]
                ELSE [ok |-> FALSE, v |-> 0]
      [] OTHER -> [ok |-> FALSE, v |-> 0]

\* ensure_current_slot on any file (lines 56-74): [raised, slot, created,
\* file, minted]; raised when int() raises at line 60, which nothing catches
ensure_current_slot_any(c, t, m, ttl) ==
    LET data == read_json_safe_any(c)
        isDict == PyTruthy(data) /\ data.t = "dict"
        slot == IF isDict THEN DictGet(data.d, "slot_key", JNull) ELSE JNull
        created == IF isDict THEN PyInt(DictGet(data.d, "created", JInt(0)))
                   ELSE [ok |-> TRUE, v |-> 0]
        new_slot == Uuid4Hex(m + 1)
        new_data == JDict([slot_key |-> JStr(new_slot), created |-> JInt(t)])
    IN  IF isDict /\ ~created.ok
        THEN [raised |-> TRUE, slot |-> JNull, created |-> 0, file |-> c, minted |-> m]
        ELSE IF isDict /\ PyTruthy(slot) /\ (t - created.v) <= ttl
        THEN [raised |-> FALSE, slot |-> slot, created |-> created.v,
              file |-> c, minted |-> m]
        ELSE [raised |-> FALSE, slot |-> JStr(new_slot), created |-> t,
              file |-> RawJson(new_data), minted |-> m + 1]

\* int(time.time()) of the first run: more than ttl seconds after time 0
Epoch == SLOT_TTL + 1

\* the slot file a run at Epoch left
GoodSlotFile == RawJson(JDict([slot_key |-> JStr(Uuid4Hex(1)), created |-> JInt(Epoch)]))

\* files with a JSON dict that lacks a field or has one of another type
DamagedDicts ==
    { JDict([created |-> JInt(Epoch)]),
      JDict([slot_key |-> JStr(Uuid4Hex(1))]),
      JDict([slot_key |-> JNull, created |-> JInt(Epoch)]),
      JDict([slot_key |-> JInt(5), created |-> JInt(Epoch)]),
      JDict([slot_key |-> JStr(Uuid4Hex(1)), created |-> JNull]),
      JDict([slot_key |-> JStr(Uuid4Hex(1)), created |-> JList]),
      JDict([slot_key |-> JStr(Uuid4Hex(1)), created |-> JStr(<<"a", "b">>)]),
      JDict([slot_key |-> JStr(Uuid4Hex(1)), created |-> JStr(<<"6", "0", "1">>)]),
      JDict([pin |-> JStr(<<"1", "2">>)]) }

DamagedFiles ==
    {[kind |-> "missing"], [kind |-> "unreadable"], [kind |-> "not_json"],
     RawJson(JList), RawJson(JNull), RawJson(JInt(5))}
        \cup {RawJson(d) : d \in DamagedDicts}

FileInit ==
    /\ rawFile \in DamagedFiles \cup {GoodSlotFile}
    /\ now = Epoch
    /\ ticks = 0
    /\ minted = 1
    /\ slotFile = [exists |-> FALSE, data |-> EmptyDict]
    /\ csvExists = FALSE
    /\ csvRows = <<>>
    /\ archiveDir = EmptyDict
    /\ run = [op |-> "none"]
    /\ handlers = <<>>
    /\ disk = <<>>

FileTick ==
    /\ ticks < MaxTicks
    /\ now' = now + TickStep(ticks)
    /\ ticks' = ticks + 1
    /\ UNCHANGED <<minted, slotFile, csvExists, csvRows, archiveDir, run, aux>>

\* the call of line 177 on the file as it is
FileEnsure ==
    \E es \in {ensure_current_slot_any(rawFile, now, minted, SLOT_TTL)} :
        /\ es.minted <= MaxMint + 1
        /\ rawFile' = es.file
        /\ minted' = es.minted
        /\ run' = [op |-> "ensure", before |-> rawFile, raised |-> es.raised,
                   slot_key |-> es.slot, slot_created |-> es.created]
        /\ UNCHANGED <<now, ticks, slotFile, csvExists, csvRows, archiveDir, handlers, disk>>

\* the file is damaged again between two runs
FileDamage ==
    /\ run.op = "ensure"
    /\ rawFile' \in DamagedFiles
    /\ run' = [op |-> "damage"]
    /\ UNCHANGED <<now, ticks, minted, slotFile, csvExists, csvRows, archiveDir, handlers, disk>>

FileNext == FileTick \/ FileEnsure \/ FileDamage

SpecSlotFile == FileInit /\ [][FileNext]_vars

\* C12: whatever the slot file holds when it is not a dict with a str
\* slot_key and an int created (missing, unreadable, not JSON, a field
\* missing or of another type), ensure_current_slot does not raise, returns
\* a slot_key never issued before with created equal to the time of the
\* call, and leaves exactly that slot in the file.
C12_SlotManagerFailsOpen ==
    [][(IsRun /\ run'.op = "ensure" /\ rawFile \in DamagedFiles) =>
          /\ ~run'.raised
          /\ minted' = minted + 1
          /\ run'.slot_key = JStr(Uuid4Hex(minted'))
          /\ run'.slot_created = now
          /\ rawFile' = RawJson(JDict([slot_key |-> JStr(Uuid4Hex(minted')),
                                       created |-> JInt(now)]))]_vars

(* ---------------- the store written and read back ----------------------- *)
\* names and emails as typed into the form (already stripped, not empty):
\* plain text, digits only, and a text pandas takes for a missing value
StoreNames == {<<"a">>, <<"0", "0", "7">>, <<"N", "A">>}
StoreEmails == {<<"e">>, <<"n", "u", "l", "l">>}

StoreInit ==
    /\ now = Epoch
    /\ ticks = 0
    /\ minted = 1
    /\ slotFile = [exists |-> FALSE, data |-> EmptyDict]
    /\ csvExists = FALSE
    /\ csvRows = <<>>
    /\ archiveDir = EmptyDict
    /\ run = [op |-> "none"]
    /\ rawFile = [kind |-> "missing"]
    /\ handlers = <<>>
    /\ disk = <<>>

\* safe_append_csv(row), then read_df()
StoreAppend(name, email) ==
    LET row == Row(now, Uuid4Hex(minted), name, email, CidAlpha)
        saved == safe_append_csv(csvExists, csvRows, row)
        back == read_df(saved.exists, saved.rows)
    IN  /\ Len(csvRows) < MaxRecords
        /\ csvExists' = back.exists
        /\ csvRows' = saved.rows
        /\ run' = [op |-> "append", row |-> row, existed |-> csvExists,
                   df |-> back.df]
        /\ UNCHANGED <<now, ticks, minted, slotFile, archiveDir, aux>>

\* read_df() alone: creates the header-only file when there is none
StoreRead ==
    /\ csvExists' = read_df(csvExists, csvRows).exists
    /\ run' = [op |-> "read"]
    /\ UNCHANGED <<now, ticks, minted, slotFile, csvRows, archiveDir, aux>>

StoreArchive ==
    LET a == archive_records(csvExists, csvRows, archiveDir, now)
    IN  /\ csvExists' = a.exists
        /\ csvRows' = a.rows
        /\ archiveDir' = a.dir
        /\ run' = [op |-> "archive"]
        /\ UNCHANGED <<now, ticks, minted, slotFile, aux>>

StoreClear ==
    LET c == clear_records(csvExists, csvRows)
    IN  /\ csvExists' = c.exists
        /\ csvRows' = c.rows
        /\ run' = [op |-> "clear"]
        /\ UNCHANGED <<now, ticks, minted, slotFile, archiveDir, aux>>

StoreNext ==
    \/ \E name \in StoreNames, email \in StoreEmails : StoreAppend(name, email)
    \/ StoreRead
    \/ StoreArchive
    \/ StoreClear

SpecStore == StoreInit /\ [][StoreNext]_vars

\* C13: the table read_df returns right after safe_append_csv(row) has as
\* its last row the slot_key, name and email of row, as the str values they
\* were written from, whether the file existed before the append or not.
C13_AppendThenReadRoundTrip ==
    run.op = "append" =>
        LET n == Len(run.df.name)
        IN  /\ n = Len(csvRows) /\ n > 0
            /\ PdEq(run.df.slot_key[n], run.row.slot_key)
            /\ PdEq(run.df.name[n], run.row.name)
            /\ PdEq(run.df.email[n], run.row.email)

(* ---------------- script runs that overlap ------------------------------ *)
\* Streamlit runs the script once per request, several at a time.  Each
\* access to a file is one step; the locals of a run are its own.
\* number of script runs in progress at once
MaxHandlers == 2
Handlers == 1..MaxHandlers

\* the PIN the teacher set, which the students type
OvPin == <<"1", "2">>

\* the slot file once a first slot was minted at time 0 and its PIN set
OvSlotFile ==
    atomic_write_json([slot_key |-> Uuid4Hex(1), created |-> 0,
                       pin |-> OvPin, pin_set_at |-> 0])

OvIdle ==
    [pc |-> "idle", op |-> "none", key |-> <<>>, at |-> 0, slot_key |-> <<>>,
     slot_created |-> 0, data |-> EmptyDict, msg |-> "none"]

OvInit ==
    /\ now = 0
    /\ ticks = 0
    /\ minted = 1
    /\ slotFile = OvSlotFile
    /\ csvExists = FALSE
    /\ csvRows = <<>>
    /\ archiveDir = EmptyDict
    /\ run = [op |-> "none"]
    /\ rawFile = [kind |-> "missing"]
    /\ handlers = [h \in Handlers |-> OvIdle]
    /\ disk = <<>>

OvTick ==
    /\ ticks < MaxTicks
    /\ now' = now + TickStep(ticks)
    /\ ticks' = ticks + 1
    /\ UNCHANGED <<minted, slotFile, csvExists, csvRows, archiveDir, run, aux>>

\* where a run goes once line 177 returned
OvBody(op) ==
    CASE op = "load" -> "done"
      [] op = "submit" -> "get_pin"
      [] op = "set_pin" -> "pin_read"

\* a run starts: lines 57-64 of ensure_current_slot read the file, return
\* the slot when it is fresh and otherwise draw the new slot
OvEnsureRead(h, op, key) ==
    LET data == read_json_safe(slotFile)
        slot == IF Truthy(data) THEN DictGet(data, "slot_key", None) ELSE None
        created == IF Truthy(data) THEN DictGet(data, "created", 0) ELSE 0
        fresh == Truthy(data) /\ SlotIsFresh(slot, created, now, SLOT_TTL)
    IN  /\ handlers[h].pc = "idle"
        /\ ~fresh => minted <= MaxMint
        /\ minted' = IF fresh THEN minted ELSE minted + 1
        /\ handlers' = [handlers EXCEPT ![h] =
              [@ EXCEPT !.op = op, !.key = key, !.at = now,
                        !.slot_key = IF fresh THEN slot ELSE Uuid4Hex(minted + 1),
                        !.slot_created = IF fresh THEN created ELSE now,
                        !.pc = IF fresh THEN OvBody(op) ELSE "ensure_write"]]
        /\ UNCHANGED <<now, ticks, slotFile, csvExists, csvRows, archiveDir, run, rawFile, disk>>

\* lines 65-74: the new slot is written and returned
OvEnsureWrite(h) ==
    /\ handlers[h].pc = "ensure_write"
    /\ slotFile' = atomic_write_json([slot_key |-> handlers[h].slot_key,
                                      created |-> handlers[h].slot_created])
    /\ handlers' = [handlers EXCEPT ![h].pc = OvBody(handlers[h].op)]
    /\ UNCHANGED <<now, ticks, minted, csvExists, csvRows, archiveDir, run, rawFile, disk>>

\* the request of a run with "Mark Attendance" pressed
OvParams(h) == QueryParams(handlers[h].key, QR_SECRET, CidAlpha)

\* lines 313-325: link check, then get_current_pin() and the PIN checks
OvGetPin(h) ==
    LET current_pin == get_current_pin(slotFile)
        msg == IF ~valid_link(OvParams(h), handlers[h].slot_key) THEN "blocked"
               ELSE IF ~PinIsSet(current_pin) THEN "no_pin"
               ELSE IF ~PinMatches(OvPin, current_pin) THEN "wrong_pin"
               ELSE "none"
    IN  /\ handlers[h].pc = "get_pin"
        /\ handlers' = [handlers EXCEPT ![h].msg = msg,
                            ![h].pc = IF msg = "none" THEN "read_df" ELSE "done"]
        /\ UNCHANGED <<now, ticks, minted, slotFile, csvExists, csvRows,
                       archiveDir, run, rawFile, disk>>

\* lines 326-333: read_df() and the duplicate check
OvReadDf(h) ==
    LET back == read_df(csvExists, csvRows)
        dup == IsDup(back.df, handlers[h].slot_key, CidAlpha)
    IN  /\ handlers[h].pc = "read_df"
        /\ csvExists' = back.exists
        /\ handlers' = [handlers EXCEPT
                            ![h].msg = IF dup THEN "duplicate" ELSE "none",
                            ![h].pc = IF dup THEN "done" ELSE "append"]
        /\ UNCHANGED <<now, ticks, minted, slotFile, csvRows, archiveDir, run, rawFile, disk>>

\* the row of line 335
OvRow(h) == Row(now, handlers[h].slot_key, <<"a">>, <<"e">>, CidAlpha)

\* the append made only if the store still has no row of this slot and
\* device, as if check and append were one step under a lock
OvAppend_Locked(h) ==
    LET dup == IsDup(read_df(csvExists, csvRows).df, handlers[h].slot_key, CidAlpha)
        saved == safe_append_csv(csvExists, csvRows, OvRow(h))
    IN  /\ handlers[h].pc = "append"
        /\ Len(csvRows) < MaxRecords
        /\ csvExists' = saved.exists
        /\ csvRows' = IF dup THEN csvRows ELSE saved.rows
        /\ handlers' = [handlers EXCEPT
                            ![h].msg = IF dup THEN "duplicate" ELSE "ok",
                            ![h].pc = "done"]
        /\ UNCHANGED <<now, ticks, minted, slotFile, archiveDir, run, rawFile, disk>>

\* lines 334-338: safe_append_csv(row)
OvAppend(h) ==
    LET saved == safe_append_csv(csvExists, csvRows, OvRow(h))
    IN  /\ handlers[h].pc = "append"
        /\ Len(csvRows) < MaxRecords
        /\ csvExists' = saved.exists
        /\ csvRows' = saved.rows
        /\ handlers' = [handlers EXCEPT ![h].msg = "ok", ![h].pc = "done"]
        /\ UNCHANGED <<now, ticks, minted, slotFile, archiveDir, run, rawFile, disk>>

\* set_current_pin, lines 99-105 and 81-82: the dict is read and updated
OvPinRead(h) ==
    /\ handlers[h].pc = "pin_read"
    /\ handlers' = [handlers EXCEPT
          ![h].data = DictUpdate(read_slot_data(slotFile),
                                 [pin |-> OvPin, pin_set_at |-> now]),
          ![h].pc = "pin_write"]
    /\ UNCHANGED <<now, ticks, minted, slotFile, csvExists, csvRows,
                   archiveDir, run, rawFile, disk>>

\* lines 83-85: the updated dict is written
OvPinWrite(h) ==
    /\ handlers[h].pc = "pin_write"
    /\ slotFile' = atomic_write_json(handlers[h].data)
    /\ handlers' = [handlers EXCEPT ![h].msg = "pin_saved", ![h].pc = "done"]
    /\ UNCHANGED <<now, ticks, minted, csvExists, csvRows, archiveDir, run, rawFile, disk>>

OvNext ==
    \/ OvTick
    \/ \E h \in Handlers :
          \/ \E key \in IssuedKeys : OvEnsureRead(h, "submit", key)
          \/ OvEnsureRead(h, "load", <<>>)
          \/ OvEnsureRead(h, "set_pin", <<>>)
          \/ OvEnsureWrite(h)
          \/ OvGetPin(h)
          \/ OvReadDf(h)
          \/ OvAppend(h)
          \/ OvPinRead(h)
          \/ OvPinWrite(h)

SpecOverlap == OvInit /\ [][OvNext]_vars

\* C14: nothing makes the duplicate check and the append one step: a run
\* that found no row of its slot_key and cid appends its row whatever the
\* store holds by then, also when another run has appended a row of the
\* same slot_key and cid in between.
C14_CheckThenAppendNotAtomic ==
    [][\A h \in Handlers :
          (handlers[h].pc = "append" /\ handlers'[h].pc # "append") =>
              /\ handlers'[h].msg = "ok"
              /\ csvRows' = Append(csvRows, OvRow(h))]_vars

\* two runs for one device both passed the check and both appended: the
\* store holds two rows with the same slot_key and cid
C14_Witness ==
    \E h1, h2 \in Handlers :
        /\ h1 # h2
        /\ handlers[h1].pc = "done" /\ handlers[h1].msg = "ok"
        /\ handlers[h2].pc = "done" /\ handlers[h2].msg = "ok"
        /\ handlers[h1].slot_key = handlers[h2].slot_key
        /\ \E i, j \in 1..Len(csvRows) :
              /\ i < j
              /\ csvRows[i].slot_key = handlers[h1].slot_key
              /\ csvRows[j].slot_key = handlers[h1].slot_key
              /\ csvRows[i].cid = CidAlpha /\ csvRows[j].cid = CidAlpha

\* C15: when all runs have finished and all of them called
\* ensure_current_slot at the same reading of the clock, the slot_key each
\* of them got is the slot_key the slot file holds.
C15_SlotAgreement ==
    (\A h \in Handlers : /\ handlers[h].pc = "done"
                         /\ handlers[h].op = "load"
                         /\ handlers[h].at = now) =>
        \A h \in Handlers :
            handlers[h].slot_key = DictGet(slotFile.data, "slot_key", <<>>)

(* ---------------- the writes of the slot file, system call by call ------ *)
\* disk: the inode each of the two paths names (0: no such file) and the
\* text each inode holds; a writer keeps the inode it opened
WrEmpty == [st |-> "empty", data |-> EmptyDict, len |-> 0]
WrFull(d) == [st |-> "full", data |-> d, len |-> Cardinality(DOMAIN d)]
\* the rest of a longer text after the start was overwritten: not JSON
WrMixed(n) == [st |-> "mixed", data |-> EmptyDict, len |-> n]

\* write(fd, text of d) at offset 0 of a file holding c: the text of a dict
\* with more entries is longer (keys and values have fixed widths here)
WrWriteAt0(c, d) ==
    IF Cardinality(DOMAIN d) >= c.len THEN WrFull(d) ELSE WrMixed(c.len)

\* new_data of line 65 and data of line 82, as two runs may write them
WrNewSlot == [slot_key |-> Uuid4Hex(2), created |-> SLOT_TTL + 1]
WrWithPin == DictUpdate(OvSlotFile.data, [pin |-> <<"3", "4">>, pin_set_at |-> 1])
WrDatas == {WrNewSlot, WrWithPin}

WrInit ==
    /\ now = 0
    /\ ticks = 0
    /\ minted = 1
    /\ slotFile = OvSlotFile
    /\ csvExists = FALSE
    /\ csvRows = <<>>
    /\ archiveDir = EmptyDict
    /\ run = [op |-> "none"]
    /\ rawFile = [kind |-> "missing"]
    /\ handlers = [h \in Handlers |-> [pc |-> "idle", data |-> EmptyDict, fd |-> 0]]
    /\ disk = [slot |-> 1, tmp |-> 0, content |-> <<WrFull(OvSlotFile.data)>>]

WrFrame == UNCHANGED <<now, ticks, minted, slotFile, csvExists, csvRows, archiveDir, rawFile>>

\* open(path, "w") where path names inode i (0: none): the file is created
\* or truncated; [content, fd]
WrOpenW(i) ==
    IF i = 0
    THEN [content |-> Append(disk.content, WrEmpty), fd |-> Len(disk.content) + 1]
    ELSE [content |-> [disk.content EXCEPT ![i] = WrEmpty], fd |-> i]

\* atomic_write_json, line 41-42: tmp = path.with_suffix(".tmp"); open(tmp, "w")
WrOpenTmp(h, data) ==
    LET o == WrOpenW(disk.tmp)
    IN  /\ handlers[h].pc = "idle"
        /\ disk' = [disk EXCEPT !.content = o.content, !.tmp = o.fd]
        /\ handlers' = [handlers EXCEPT ![h] = [pc |-> "dump", data |-> data, fd |-> o.fd]]
        /\ run' = run
        /\ WrFrame

\* lines 43-44: json.dump, flush and fsync put the whole text into the
\* opened file
WrDump(h) ==
    /\ handlers[h].pc = "dump"
    /\ disk' = [disk EXCEPT !.content[handlers[h].fd] =
                    WrWriteAt0(disk.content[handlers[h].fd], handlers[h].data)]
    /\ handlers' = [handlers EXCEPT ![h].pc = "replace"]
    /\ run' = run
    /\ WrFrame

\* line 45: tmp.replace(path); FileNotFoundError when tmp is gone, which
\* the callers catch (lines 68, 86) to write the file in place
WrReplace(h) ==
    /\ handlers[h].pc = "replace"
    /\ disk' = IF disk.tmp = 0 THEN disk
               ELSE [disk EXCEPT !.slot = disk.tmp, !.tmp = 0]
    /\ handlers' = [handlers EXCEPT ![h].pc = IF disk.tmp = 0 THEN "fallback" ELSE "done"]
    /\ run' = run
    /\ WrFrame

\* lines 70 and 88: open(SLOT_FILE, "w")
WrFallbackOpen(h) ==
    LET o == WrOpenW(disk.slot)
    IN  /\ handlers[h].pc = "fallback"
        /\ disk' = [disk EXCEPT !.content = o.content, !.slot = o.fd]
        /\ handlers' = [handlers EXCEPT ![h].pc = "fallback_dump", ![h].fd = o.fd]
        /\ run' = run
        /\ WrFrame

\* lines 71 and 89: json.dump(data, f), written out when the file is closed
WrFallbackDump(h) ==
    /\ handlers[h].pc = "fallback_dump"
    /\ disk' = [disk EXCEPT !.content[handlers[h].fd] =
                    WrWriteAt0(disk.content[handlers[h].fd], handlers[h].data)]
    /\ handlers' = [handlers EXCEPT ![h].pc = "done"]
    /\ run' = run
    /\ WrFrame

\* another run opens SLOT_FILE and reads it (read_json_safe, lines 48-51)
WrRead ==
    /\ run' = [op |-> "read",
               seen |-> IF disk.slot = 0 THEN [st |-> "missing", data |-> EmptyDict, len |-> 0]
                        ELSE disk.content[disk.slot]]
    /\ UNCHANGED <<handlers, disk>>
    /\ WrFrame

WrNext ==
    \/ \E h \in Handlers :
          \/ \E data \in WrDatas : WrOpenTmp(h, data)
          \/ WrDump(h)
          \/ WrReplace(h)
          \/ WrFallbackOpen(h)
          \/ WrFallbackDump(h)
    \/ WrRead

SpecWrite == WrInit /\ [][WrNext]_vars

\* C16: whatever the writers of the slot file are doing, a reader finds in
\* it the complete text of the dict it held before or of a dict written.
C16_ReaderSeesCompleteFile ==
    run.op = "read" =>
        /\ run.seen.st = "full"
        /\ run.seen.data \in {OvSlotFile.data} \cup WrDatas

\* C17: a device that has a row under another slot_key and none under the
\* current one is not taken for a duplicate: its submission with the current
\* key, the secret, a name, an email and the PIN of the slot is accepted and
\* appends exactly its row.
C17_DuplicateScopedToSlot ==
    [][(IsRun /\ WellFormedAndNew /\ TypedThePin
          /\ \E r \in Rows : /\ r.cid = run'.params["cid"]
                             /\ r.slot_key # run'.slot_key) =>
          /\ AcceptedOneRow
          /\ \E i, j \in 1..Len(csvRows') :
                /\ csvRows'[i].cid = csvRows'[j].cid
                /\ csvRows'[i].slot_key # csvRows'[j].slot_key]_vars

\* one second after the first slot expired, the device recorded under it
\* was accepted under the second slot with the PIN set anew
C17_Witness ==
    /\ run.op = "submit" /\ run.msg = "ok" /\ now = SLOT_TTL + 1
    /\ run.slot_key = Uuid4Hex(2)
    /\ ParamIs(run.params, "cid", CidAlpha)
    /\ \E r \in Rows : r.cid = CidAlpha /\ r.slot_key = Uuid4Hex(1)
    /\ \E r \in Rows : r.cid = CidAlpha /\ r.slot_key = Uuid4Hex(2)

\* C18: every step leaves the rows of the store as they are, except that an
\* accepted submission adds one row after them and that Archive or Clear,
\* pressed with the password and the exact phrase, leaves none; page loads,
\* refused submissions, record views and PIN operations change no row.
C18_StoreAppendOnly ==
    [][\/ csvRows' = csvRows
       \/ /\ run'.op = "submit" /\ run'.msg = "ok"
          /\ Len(csvRows') = Len(csvRows) + 1
          /\ SubSeq(csvRows', 1, Len(csvRows)) = csvRows
       \/ /\ \/ run'.op = "archive" /\ run'.arg = ARCHIVE
             \/ run'.op = "clear" /\ run'.arg = CLEAR
          /\ run'.pw = ADMIN_PASSWORD
          /\ csvRows' = <<>>]_vars

\* a page load, a record view or a PIN operation was made under the second
\* slot while the store held two rows
C18_Witness ==
    /\ Len(csvRows) = 2
    /\ run.op \in {"show", "set_pin", "generate_pin", "clear_pin", "load"}
    /\ minted = 2

\* the rows in the store and in the files of the archive directory
HeldRows(rows, dir) ==
    {rows[i] : i \in 1..Len(rows)}
        \cup UNION {{dir[n][i] : i \in 1..Len(dir[n])} : n \in DOMAIN dir}

\* C19: a run other than an authorized Clear loses no row: every row that
\* was in the store or in an archive file before the run is in the store or
\* in an archive file after it.
C19_ArchiveLosesNoRow ==
    [][(IsRun /\ ~ClearedWithAuthority) =>
          HeldRows(csvRows, archiveDir) \subseteq HeldRows(csvRows', archiveDir')]_vars

\* the dicts d and e have the same entry for key k, or both have none
SameEntry(d, e, k) ==
    /\ k \in DOMAIN d <=> k \in DOMAIN e
    /\ k \in DOMAIN d => d[k] = e[k]

\* C20: the write of a PIN operation changes pin and pin_set_at only: the
\* slot file has after it the slot_key and created it had just before it,
\* also when another run rotated the slot while the PIN operation was under
\* way.
C20_PinWriteKeepsSlot ==
    [][\A h \in Handlers :
          (handlers[h].pc = "pin_write" /\ handlers'[h].pc = "done") =>
              /\ SameEntry(slotFile'.data, slotFile.data, "slot_key")
              /\ SameEntry(slotFile'.data, slotFile.data, "created")]_vars
====
